---- MODULE Spec2Model ----
(***************************************************************************)
(* State-machine model of timelapse-recorder.py: the Tk handlers           *)
(* start_recording / stop_recording / browse_folder / refresh_windows, the *)
(* background thread record(), the operating-system collaborators they     *)
(* query (window list, window geometry, encoder sinks), and load_config /  *)
(* save_config over the text of config.txt.                                *)
(***************************************************************************)
EXTENDS Integers, Sequences, FiniteSets, TLC

\* ------------------------------------------------------------------ bounds
\* Number of accepted start requests (= record() threads ever spawned).
MaxSessions == 2
\* Number of loop iterations one thread may begin.
MaxTicks == 2

\* --------------------------------------------------------------- constants
\* selected_window = None ("entire screen"); window handles are positive.
NoWindow == 0
\* The one application window the operating system may show, and its title.
TheHwnd == 1
WindowTitle == "Editor"
EntireScreen == "Entire Screen"

Platforms == {"win32", "other"}

\* Rectangles keep the two fields the capture loop's arithmetic reads
\* (width, height); left/top select pixels only.
ScreenRect == [width |-> 800, height |-> 600]
WindowRects == {[width |-> 640, height |-> 480], [width |-> 320, height |-> 240]}
NoRect == [width |-> 0, height |-> 0]

\* Texts the user may have typed into the fps and the interval entry.
FpsTexts == {"abc", "0", "30"}
IntervalTexts == {"abc", "-1", "nan", "1"}
\* Texts of the filename entry and of the output-folder entry.
FilenameTexts == {"clip", "clip.mp4"}
PathTexts == {"out", "/cwd/out"}
\* Folders the directory dialog may return ("" when it is cancelled).
BrowseFolders == {"", "/cwd/out"}
\* Texts the fps and the interval entry may hold when the dialog returns.
BrowseFpsTexts == {"30"}
BrowseIntervalTexts == {"1"}
\* Texts the user may type into the window combobox once it is editable.
TypedWindowTexts == {WindowTitle}

VARIABLES
    platform,         \* sys.platform
    win_exists,       \* the OS shows the program the window TheHwnd
    win_rect,         \* its current rectangle (NoRect when there is none)
    recording,        \* global recording
    selected_window,  \* global selected_window
    output_folder,    \* global output_folder
    config_file,      \* config.txt: whether it exists, and its text
    config,           \* the module-level dict config, loaded once at startup
    combo_values,     \* window_combo['values']
    combo_sel,        \* window_combo.get()
    start_button, stop_button, combo_state, refresh_button,  \* widget states
    start_result,     \* what the last start_recording call did: the text of
                      \* its messagebox.showerror, "accepted", or "none"
    threads           \* the record() threads spawned so far, in spawn order

vars == <<platform, win_exists, win_rect, recording, selected_window,
          output_folder, config_file, config, combo_values, combo_sel,
          start_button, stop_button, combo_state, refresh_button,
          start_result, threads>>

env_vars == <<platform, win_exists, win_rect>>
widget_vars == <<start_button, stop_button, combo_state, refresh_button>>
ui_vars == <<output_folder, config_file, config, combo_values, combo_sel,
             start_result>>

\* ------------------------------------------------------------ float values
\* float(text): a number, NaN, or ValueError.
Num(v) == [kind |-> "num", v |-> v]
NaN == [kind |-> "nan", v |-> 0]
ValueError == [kind |-> "error", v |-> 0]

ParseFloat(text) ==
    CASE text = "0"   -> Num(0)
      [] text = "-1"  -> Num(-1)
      [] text = "1"   -> Num(1)
      [] text = "2"   -> Num(2)
      [] text = "30"  -> Num(30)
      [] text = "60"  -> Num(60)
      [] text = "1.0" -> Num(1)
      [] text = "2.0" -> Num(2)
      [] text = "30.0" -> Num(30)
      [] text = "60.0" -> Num(60)
      [] text = "0.0" -> Num(0)
      [] text = "-1.0" -> Num(-1)
      [] text = "nan" -> NaN
      [] OTHER        -> ValueError

\* x <= 0 on floats: every comparison with NaN is False.
LeZero(x) == x.kind = "num" /\ x.v <= 0
\* x > 0 on floats.
GtZero(x) == x.kind = "num" /\ x.v > 0

\* str(float) as save_config's f-string writes it.
FloatStr(x) ==
    CASE x.kind = "nan" -> "nan"
      [] x.v = 1        -> "1.0"
      [] x.v = 2        -> "2.0"
      [] x.v = 0        -> "0.0"
      [] x.v = 30       -> "30.0"
      [] x.v = 60       -> "60.0"
      [] OTHER          -> "-1.0"

\* ---------------------------------------------------------------- filenames
\* filename_entry.get().strip() or the timestamped default name.
DefaultFilename(text) == IF text = "" THEN "timelapse_TS.mp4" ELSE text
EndsWithMp4(name) == name \in {"timelapse_TS.mp4", "clip.mp4"}
\* Ensure the filename has the .mp4 extension.
NormalizeFilename(name) ==
    IF EndsWithMp4(name) THEN name
    ELSE CASE name = "clip" -> "clip.mp4" [] OTHER -> name
\* Path(text).resolve()
ResolvePath(text) == CASE text = "out" -> "/cwd/out" [] OTHER -> text
\* output_folder / filename
SaveFile(folder, filename) == <<folder, filename>>

\* ------------------------------------------------------------------ windows
\* get_window_list(): (name, hwnd) pairs; windows are enumerated on win32 only.
get_window_list ==
    <<  <<EntireScreen, NoWindow>>  >>
    \o (IF platform = "win32" /\ win_exists
        THEN << <<WindowTitle, TheHwnd>> >> ELSE <<>>)

WindowNames(windows) == {windows[i][1] : i \in 1..Len(windows)}

\* The first hwnd whose name matches, None when no name matches.
LookupWindow(windows, name) ==
    IF \E i \in 1..Len(windows) : windows[i][1] = name
    THEN LET i == CHOOSE i \in 1..Len(windows) :
                     /\ windows[i][1] = name
                     /\ \A j \in 1..(i-1) : windows[j][1] # name
         IN windows[i][2]
    ELSE NoWindow

\* get_window_rect(hwnd): the rectangle on win32 (GetWindowRect raises for a
\* handle that is no longer a window), None elsewhere.
get_window_rect(hwnd) ==
    IF platform = "win32"
    THEN IF win_exists /\ hwnd = TheHwnd
         THEN [status |-> "ok", rect |-> win_rect]
         ELSE [status |-> "raise", rect |-> NoRect]
    ELSE [status |-> "none", rect |-> NoRect]

\* ------------------------------------------------------------ encoder sinks
\* A cv2.VideoWriter: the constructor calls made for it, whether isOpened(),
\* the frames it holds and the release() calls made on it.
NoWriter == [opened |-> FALSE, attempts |-> <<>>, frames |-> <<>>, releases |-> 0]

\* cv2.VideoWriter(path, fourcc, fps, (width, height)) with outcome ok.
VideoWriter(path, codec, fps, width, height, ok) ==
    [codec |-> codec, path |-> path, fps |-> fps,
     width |-> width, height |-> height, ok |-> ok]

\* out = cv2.VideoWriter(...): a new writer object replaces the old one.
OpenWriter(out, attempt) ==
    [opened |-> attempt.ok, attempts |-> Append(out.attempts, attempt),
     frames |-> <<>>, releases |-> 0]

\* out.write(img): an unopened writer drops the image.
WriteFrame(out, img) ==
    IF out.opened THEN [out EXCEPT !.frames = Append(@, img)] ELSE out

\* out.release()
ReleaseWriter(out) == [out EXCEPT !.opened = FALSE, !.releases = @ + 1]

EverOpened(out) == \E i \in 1..Len(out.attempts) : out.attempts[i].ok

\* Mutant of Resize: the drifted image is written as grabbed.
Resize_Skipped(img, width, height) == img

\* cv2.resize(img, (width, height)) when the grabbed image's shape differs.
Resize(img, width, height) ==
    IF img.width # width \/ img.height # height
    THEN [width |-> width, height |-> height]
    ELSE img

\* ------------------------------------------------------------ configuration
ScriptDir == "/cwd"
\* A text is a sequence of tokens: "=", "\n" and " " stand for themselves,
\* any other token is a run of characters holding none of the three.
Text(str) == <<str>>
\* str(text) for the one-token texts the widgets and globals hold.
Str(text) == text[1]

IsSpace(tok) == tok \in {" ", "\n"}

\* text.strip()
Strip(text) ==
    LET kept == {i \in 1..Len(text) : ~IsSpace(text[i])}
    IN IF kept = {} THEN <<>>
       ELSE SubSeq(text, CHOOSE i \in kept : \A j \in kept : i <= j,
                         CHOOSE i \in kept : \A j \in kept : i >= j)

\* The position of the first token tok of text, 0 when it has none.
Find(text, tok) ==
    IF \E i \in 1..Len(text) : text[i] = tok
    THEN CHOOSE i \in 1..Len(text) :
             text[i] = tok /\ \A j \in 1..(i-1) : text[j] # tok
    ELSE 0

\* text.split('\n')
RECURSIVE SplitLines(_)
SplitLines(text) ==
    LET i == Find(text, "\n")
    IN IF i = 0 THEN <<text>>
       ELSE <<SubSeq(text, 1, i-1)>> \o SplitLines(SubSeq(text, i+1, Len(text)))

\* lines joined by '\n'
RECURSIVE JoinLines(_)
JoinLines(lines) ==
    IF Len(lines) = 0 THEN <<>>
    ELSE IF Len(lines) = 1 THEN lines[1]
    ELSE lines[1] \o <<"\n">> \o JoinLines(Tail(lines))

\* f"{key}={value}"
KeyLine(key, value) == <<key, "=">> \o value

NoConfigFile == [exists |-> FALSE, text |-> <<>>]
\* CONFIG_FILE.write_text(text)
WrittenFile(text) == [exists |-> TRUE, text |-> text]

\* Mutant of save_config: the fps line holds the interval and the interval
\* line the fps.
save_config_SwapsFloats(path, fps, interval, window) ==
    WrittenFile(JoinLines(<< KeyLine("path", path),
                             KeyLine("fps", Text(FloatStr(interval))),
                             KeyLine("interval", Text(FloatStr(fps))),
                             KeyLine("window", window) >>))

\* save_config(path, fps, interval, window): the four key=value lines.
save_config(path, fps, interval, window) ==
    WrittenFile(JoinLines(<< KeyLine("path", path),
                             KeyLine("fps", Text(FloatStr(fps))),
                             KeyLine("interval", Text(FloatStr(interval))),
                             KeyLine("window", window) >>))

ConfigDefaults ==
    [path |-> Text(ScriptDir), fps |-> Num(30), interval |-> Num(1),
     window |-> Text(EntireScreen)]

\* Mutant of ParsePairs: reading stops at the first line that has no '='.
RECURSIVE ParsePairs_StopsAtBadLine(_)
ParsePairs_StopsAtBadLine(lines) ==
    IF lines = <<>> THEN <<>>
    ELSE LET line == Head(lines)
             i == Find(line, "=")
         IN IF i = 0 THEN <<>>
            ELSE << <<Strip(SubSeq(line, 1, i-1)),
                      Strip(SubSeq(line, i+1, Len(line)))>> >>
                 \o ParsePairs_StopsAtBadLine(Tail(lines))

\* Lines 49-52: for each line with an '=', key, value = line.split('=', 1),
\* both stripped; the assignments config[key] = value in file order.
RECURSIVE ParsePairs(_)
ParsePairs(lines) ==
    IF lines = <<>> THEN <<>>
    ELSE LET line == Head(lines)
             i == Find(line, "=")
         IN (IF i = 0 THEN <<>>
             ELSE << <<Strip(SubSeq(line, 1, i-1)),
                       Strip(SubSeq(line, i+1, Len(line)))>> >>)
            \o ParsePairs(Tail(lines))

HasKey(pairs, key) == \E i \in 1..Len(pairs) : pairs[i][1] = Text(key)
\* config[key] after the assignments: the last one wins.
DictGet(pairs, key) ==
    pairs[CHOOSE i \in 1..Len(pairs) :
              /\ pairs[i][1] = Text(key)
              /\ \A j \in (i+1)..Len(pairs) : pairs[j][1] # Text(key)][2]

\* float(value) of a stored value: float() takes one numeric literal.
FloatOf(value) == IF Len(value) = 1 THEN ParseFloat(value[1]) ELSE ValueError
\* Path(value): Path("") is Path(".").
PathOf(value) == IF value = <<>> THEN Text(".") ELSE value

\* Mutant of load_config: a value float() rejects is replaced by its own
\* default and the other stored values are kept.
load_config_DefaultsPerField(file) ==
    IF file.exists
    THEN LET pairs == ParsePairs(SplitLines(Strip(file.text)))
             fps == IF HasKey(pairs, "fps") THEN FloatOf(DictGet(pairs, "fps"))
                    ELSE Num(30)
             interval == IF HasKey(pairs, "interval")
                         THEN FloatOf(DictGet(pairs, "interval")) ELSE Num(1)
         IN [path |-> IF HasKey(pairs, "path") THEN PathOf(DictGet(pairs, "path"))
                      ELSE Text(ScriptDir),
             fps |-> IF fps.kind = "error" THEN Num(30) ELSE fps,
             interval |-> IF interval.kind = "error" THEN Num(1) ELSE interval,
             window |-> IF HasKey(pairs, "window") THEN DictGet(pairs, "window")
                        ELSE Text(EntireScreen)]
    ELSE ConfigDefaults

\* load_config(): the stored values, each absent key replaced by its default;
\* the defaults when the file is missing or a float() raises.
load_config(file) ==
    IF file.exists
    THEN LET pairs == ParsePairs(SplitLines(Strip(file.text)))
             fps == IF HasKey(pairs, "fps") THEN FloatOf(DictGet(pairs, "fps"))
                    ELSE Num(30)
             interval == IF HasKey(pairs, "interval")
                         THEN FloatOf(DictGet(pairs, "interval")) ELSE Num(1)
         IN IF fps.kind = "error" \/ interval.kind = "error"
            THEN ConfigDefaults
            ELSE [path |-> IF HasKey(pairs, "path")
                           THEN PathOf(DictGet(pairs, "path"))
                           ELSE Text(ScriptDir),
                  fps |-> fps,
                  interval |-> interval,
                  window |-> IF HasKey(pairs, "window") THEN DictGet(pairs, "window")
                             ELSE Text(EntireScreen)]
    ELSE ConfigDefaults

\* The config file at startup: a first run finds none.
StartupFiles == {NoConfigFile}

\* ------------------------------------------------------------------ threads
\* One record() thread: its position, the closure variables it reads from its
\* start_recording call (fps, interval, save_file, window_name), its locals
\* (monitor, width, height, out), the message boxes it has shown, the
\* exception that ended it, and two counters: n, the loop iterations begun,
\* and late, the grab-encode steps made while recording was already False.
NewThread(fps, interval, save_file, window_name) ==
    [pc |-> "resolve", fps |-> fps, interval |-> interval,
     save_file |-> save_file, window_name |-> window_name,
     monitor |-> NoRect, width |-> 0, height |-> 0, out |-> NoWriter,
     notices |-> <<>>, exc |-> "none", n |-> 0, late |-> 0]

\* A thread past the with-block (lines 233-236) reads none of its closure
\* variables or locals again: only its position is kept.
Epilogue(pc) ==
    [pc |-> pc, fps |-> NaN, interval |-> NaN, save_file |-> <<>>,
     window_name |-> "", monitor |-> NoRect, width |-> 0, height |-> 0,
     out |-> NoWriter, notices |-> <<>>, exc |-> "none", n |-> 0, late |-> 0]

Tids == 1..Len(threads)
Terminated(t) == threads[t].pc \in {"done", "crashed"}
Alive(t) == ~Terminated(t)
InLoop(t) == threads[t].pc \in {"check", "requery", "grab", "sleep"}

\* ------------------------------------------------------------------ startup
\* Module-level code: config = load_config(), the widgets, refresh_windows().
Init ==
    /\ platform \in Platforms
    /\ win_exists = (platform = "win32")
    /\ win_rect \in (IF win_exists THEN WindowRects ELSE {NoRect})
    /\ recording = FALSE
    /\ selected_window = NoWindow
    /\ config_file \in StartupFiles
    /\ config = load_config(config_file)
    /\ output_folder = Str(config.path)
    /\ combo_values = WindowNames(get_window_list)
    /\ combo_sel = IF Str(config.window) \in combo_values
                   THEN Str(config.window) ELSE EntireScreen
    /\ start_button = "normal"
    /\ stop_button = "disabled"
    /\ combo_state = "readonly"
    /\ refresh_button = "normal"
    /\ start_result = "none"
    /\ threads = <<>>

\* ----------------------------------------------------------------- handlers
\* browse_folder(), run by a click on the Browse button (never disabled), as
\* the directory dialog returns.  The folder is written into path_entry, whose
\* content start_recording later draws from PathTexts.
browse_folder(folder, fps_text, interval_text) ==
    /\ folder # ""
    /\ output_folder' = folder
    /\ LET fps == ParseFloat(fps_text)
           interval == ParseFloat(interval_text)
           window == combo_sel
       IN config_file' = IF fps.kind = "error" \/ interval.kind = "error"
                         THEN config_file
                         ELSE save_config(Text(folder), fps, interval, Text(window))
    /\ UNCHANGED <<env_vars, widget_vars, recording, selected_window, config,
                   combo_values, combo_sel, start_result, threads>>

\* Mutant of StartClickable: the Start button is never disabled.
StartClickable_Always == TRUE

\* Line 169 disables the Start button for the session, line 233 enables it
\* again; a disabled Tk button runs no command.
StartClickable == start_button = "normal"

\* start_recording(), run by a click on the Start button (a disabled Tk
\* button runs no command).  The texts are what the entries hold at the click.
start_recording(fps_text, interval_text, filename_text, path_text) ==
    /\ StartClickable
    /\ Len(threads) < MaxSessions
    /\ IF recording
       THEN UNCHANGED vars
       ELSE LET fps == ParseFloat(fps_text)
                interval == ParseFloat(interval_text)
                filename == NormalizeFilename(DefaultFilename(filename_text))
                window_name == combo_sel
                hwnd == LookupWindow(get_window_list, window_name)
                chosen_path == ResolvePath(path_text)
                save_file == SaveFile(chosen_path, filename)
            IN IF fps.kind = "error" \/ interval.kind = "error"
               THEN /\ start_result' = "Invalid numeric input"
                    /\ UNCHANGED <<env_vars, widget_vars, recording,
                                   selected_window, output_folder, config_file,
                                   config, combo_values, combo_sel, threads>>
               ELSE IF LeZero(fps) \/ LeZero(interval)
               THEN /\ start_result' = "FPS and Interval must be > 0"
                    /\ UNCHANGED <<env_vars, widget_vars, recording,
                                   selected_window, output_folder, config_file,
                                   config, combo_values, combo_sel, threads>>
               ELSE /\ selected_window' = hwnd
                    /\ config_file' = save_config(Text(chosen_path), fps, interval,
                                                Text(window_name))
                    /\ output_folder' = chosen_path
                    /\ recording' = TRUE
                    /\ start_button' = "disabled"
                    /\ stop_button' = "normal"
                    /\ combo_state' = "disabled"
                    /\ refresh_button' = "disabled"
                    /\ threads' = Append(threads,
                                         NewThread(fps, interval, save_file, window_name))
                    /\ start_result' = "accepted"
                    /\ UNCHANGED <<env_vars, config, combo_values, combo_sel>>

\* stop_recording(), run by a click on the Stop button.
stop_recording ==
    /\ stop_button = "normal"
    /\ recording' = FALSE
    /\ UNCHANGED <<env_vars, widget_vars, ui_vars, selected_window, threads>>

\* refresh_windows(), run by a click on the refresh button.
refresh_windows ==
    /\ refresh_button = "normal"
    /\ combo_values' = WindowNames(get_window_list)
    /\ combo_sel' = IF Str(config.window) \in combo_values'
                    THEN Str(config.window) ELSE EntireScreen
    /\ UNCHANGED <<env_vars, widget_vars, recording, selected_window,
                   output_folder, config_file, config, start_result, threads>>

\* The user picks an entry of the read-only combobox.
SelectWindow(name) ==
    /\ combo_state \in {"readonly", "normal"}
    /\ name \in combo_values
    /\ name # combo_sel
    /\ combo_sel' = name
    /\ UNCHANGED <<env_vars, widget_vars, recording, selected_window,
                   output_folder, config_file, config, combo_values,
                   start_result, threads>>

\* The user types into the combobox: line 235 leaves it in state "normal",
\* in which a ttk.Combobox is an editable entry (it starts "readonly").
TypeWindow(text) ==
    /\ combo_state = "normal"
    /\ text # combo_sel
    /\ combo_sel' = text
    /\ UNCHANGED <<env_vars, widget_vars, recording, selected_window,
                   output_folder, config_file, config, combo_values,
                   start_result, threads>>

\* ------------------------------------------------------- the record() thread
\* Lines 176-195: the capture region.  (The rect-is-None branch restores the
\* widgets and returns; get_window_rect gives None off win32 only.)
Resolve(t) ==
    /\ threads[t].pc = "resolve"
    /\ IF selected_window = NoWindow \/ platform # "win32"
       THEN /\ threads' = [threads EXCEPT ![t].monitor = ScreenRect, ![t].pc = "open"]
            /\ UNCHANGED <<recording, widget_vars, start_result>>
       ELSE LET r == get_window_rect(selected_window)
            IN CASE r.status = "raise" ->
                      /\ threads' = [threads EXCEPT ![t].pc = "crashed",
                                   ![t].exc = "GetWindowRect: invalid window handle"]
                      /\ UNCHANGED <<recording, widget_vars, start_result>>
                 [] r.status = "none" ->
                      /\ recording' = FALSE
                      /\ start_button' = "normal"
                      /\ stop_button' = "disabled"
                      /\ combo_state' = "normal"
                      /\ refresh_button' = "normal"
                      /\ threads' = [threads EXCEPT
                             ![t].notices = Append(@, [title |-> "Error",
                                 window |-> "Could not get window dimensions",
                                 path |-> threads[t].save_file]),
                             ![t].pc = "done"]
                      /\ UNCHANGED start_result
                 [] OTHER ->
                      /\ threads' = [threads EXCEPT ![t].monitor = r.rect,
                                                    ![t].pc = "open"]
                      /\ UNCHANGED <<recording, widget_vars, start_result>>
    /\ UNCHANGED <<env_vars, selected_window, output_folder, config_file,
                   config, combo_values, combo_sel>>

\* Mutant of OpenPreferred: the writer's frame rate is taken from the
\* sampling interval.
OpenPreferred_FpsFromInterval(t, ok) ==
    /\ threads[t].pc = "open"
    /\ LET th == threads[t]
           frame == th.monitor
           attempt == VideoWriter(th.save_file, "avc1", th.interval,
                                  frame.width, frame.height, ok)
       IN threads' = [threads EXCEPT ![t].width = frame.width,
                                     ![t].height = frame.height,
                                     ![t].out = OpenWriter(th.out, attempt),
                                     ![t].pc = "fallback"]
    /\ UNCHANGED <<env_vars, widget_vars, ui_vars, recording, selected_window>>

\* Lines 197-203: the first grab gives (height, width); the avc1 writer is
\* constructed, and opens or not.
OpenPreferred(t, ok) ==
    /\ threads[t].pc = "open"
    /\ LET th == threads[t]
           frame == th.monitor
           attempt == VideoWriter(th.save_file, "avc1", th.fps,
                                  frame.width, frame.height, ok)
       IN threads' = [threads EXCEPT ![t].width = frame.width,
                                     ![t].height = frame.height,
                                     ![t].out = OpenWriter(th.out, attempt),
                                     ![t].pc = "fallback"]
    /\ UNCHANGED <<env_vars, widget_vars, ui_vars, recording, selected_window>>

\* Mutant of OpenFallback: the mp4v writer is constructed whether or not the
\* first writer opened.
OpenFallback_Unconditional(t, ok) ==
    /\ threads[t].pc = "fallback"
    /\ LET th == threads[t]
           attempt == VideoWriter(th.save_file, "mp4v", th.fps,
                                  th.width, th.height, ok)
       IN threads' = [threads EXCEPT ![t].out = OpenWriter(th.out, attempt),
                                     ![t].pc = "started"]
    /\ UNCHANGED <<env_vars, widget_vars, ui_vars, recording, selected_window>>

\* Lines 205-208: the mp4v writer, when the first did not open.
OpenFallback(t, ok) ==
    /\ threads[t].pc = "fallback"
    /\ LET th == threads[t]
           attempt == VideoWriter(th.save_file, "mp4v", th.fps,
                                  th.width, th.height, ok)
       IN IF ~th.out.opened
          THEN threads' = [threads EXCEPT ![t].out = OpenWriter(th.out, attempt),
                                          ![t].pc = "started"]
          ELSE /\ ok
               /\ threads' = [threads EXCEPT ![t].pc = "started"]
    /\ UNCHANGED <<env_vars, widget_vars, ui_vars, recording, selected_window>>

\* Mutant of NoticeStarted: the thread sets the flag itself once it has started.
NoticeStarted_SetsFlag(t) ==
    /\ threads[t].pc = "started"
    /\ LET th == threads[t]
           window_info == IF selected_window # NoWindow THEN th.window_name
                          ELSE EntireScreen
           box == [title |-> "Recording Started", window |-> window_info,
                   path |-> th.save_file]
       IN threads' = [threads EXCEPT ![t].notices = Append(@, box),
                                     ![t].pc = "check"]
    /\ recording' = TRUE
    /\ UNCHANGED <<env_vars, widget_vars, ui_vars, selected_window>>

\* Lines 210-211: the "Recording Started" message box.
NoticeStarted(t) ==
    /\ threads[t].pc = "started"
    /\ LET th == threads[t]
           window_info == IF selected_window # NoWindow THEN th.window_name
                          ELSE EntireScreen
           box == [title |-> "Recording Started", window |-> window_info,
                   path |-> th.save_file]
       IN threads' = [threads EXCEPT ![t].notices = Append(@, box),
                                     ![t].pc = "check"]
    /\ UNCHANGED <<env_vars, widget_vars, ui_vars, recording, selected_window>>

\* Mutant of LoopCheck: the loop does not read the flag while it may iterate.
LoopCheck_IgnoresFlag(t) ==
    /\ threads[t].pc = "check"
    /\ IF threads[t].n < MaxTicks
       THEN threads' = [threads EXCEPT ![t].n = @ + 1, ![t].pc = "requery"]
       ELSE threads' = [threads EXCEPT ![t].pc = "release"]
    /\ UNCHANGED <<env_vars, widget_vars, ui_vars, recording, selected_window>>

\* Line 213: while recording.
LoopCheck(t) ==
    /\ threads[t].pc = "check"
    /\ IF recording
       THEN /\ threads[t].n < MaxTicks
            /\ threads' = [threads EXCEPT ![t].n = @ + 1, ![t].pc = "requery"]
       ELSE threads' = [threads EXCEPT ![t].pc = "release"]
    /\ UNCHANGED <<env_vars, widget_vars, ui_vars, recording, selected_window>>

\* Lines 215-218: the window's rectangle is queried again on every tick.
Requery(t) ==
    /\ threads[t].pc = "requery"
    /\ IF selected_window # NoWindow /\ platform = "win32"
       THEN LET r == get_window_rect(selected_window)
            IN CASE r.status = "raise" ->
                      threads' = [threads EXCEPT ![t].pc = "crashed",
                                   ![t].exc = "GetWindowRect: invalid window handle"]
                 [] r.status = "ok" ->
                      threads' = [threads EXCEPT ![t].monitor = r.rect,
                                                 ![t].pc = "grab"]
                 [] OTHER ->
                      threads' = [threads EXCEPT ![t].pc = "grab"]
       ELSE threads' = [threads EXCEPT ![t].pc = "grab"]
    /\ UNCHANGED <<env_vars, widget_vars, ui_vars, recording, selected_window>>

\* Lines 220-227: grab, drop the alpha channel, resize on drift, write.
GrabEncode(t) ==
    /\ threads[t].pc = "grab"
    /\ LET th == threads[t]
           img == Resize(th.monitor, th.width, th.height)
       IN threads' = [threads EXCEPT ![t].out = WriteFrame(th.out, img),
                                     ![t].late = IF recording THEN @ ELSE @ + 1,
                                     ![t].pc = "sleep"]
    /\ UNCHANGED <<env_vars, widget_vars, ui_vars, recording, selected_window>>

\* Line 228: time.sleep(interval); time.sleep raises ValueError for NaN.
Sleep(t) ==
    /\ threads[t].pc = "sleep"
    /\ threads' = IF threads[t].interval.kind = "nan"
                  THEN [threads EXCEPT ![t].pc = "crashed",
                                       ![t].exc = "sleep: ValueError"]
                  ELSE [threads EXCEPT ![t].pc = "check"]
    /\ UNCHANGED <<env_vars, widget_vars, ui_vars, recording, selected_window>>

\* Line 230: out.release().
Release(t) ==
    /\ threads[t].pc = "release"
    /\ threads' = [threads EXCEPT ![t].out = ReleaseWriter(@), ![t].pc = "finished"]
    /\ UNCHANGED <<env_vars, widget_vars, ui_vars, recording, selected_window>>

\* Line 231: the "Recording Finished" message box.
NoticeFinished(t) ==
    /\ threads[t].pc = "finished"
    /\ LET box == [title |-> "Recording Finished", window |-> "",
                   path |-> threads[t].save_file]
       IN threads' = [threads EXCEPT ![t].notices = Append(@, box),
                                     ![t].pc = "enable_start"]
    /\ UNCHANGED <<env_vars, widget_vars, ui_vars, recording, selected_window>>

\* Line 233.
EnableStart(t) ==
    /\ threads[t].pc = "enable_start"
    /\ start_button' = "normal"
    /\ threads' = [threads EXCEPT ![t] = Epilogue("disable_stop")]
    /\ UNCHANGED <<env_vars, ui_vars, recording, selected_window,
                   stop_button, combo_state, refresh_button>>

\* Line 234.
DisableStop(t) ==
    /\ threads[t].pc = "disable_stop"
    /\ stop_button' = "disabled"
    /\ threads' = [threads EXCEPT ![t].pc = "enable_combo"]
    /\ UNCHANGED <<env_vars, ui_vars, recording, selected_window,
                   start_button, combo_state, refresh_button>>

\* Line 235.
EnableCombo(t) ==
    /\ threads[t].pc = "enable_combo"
    /\ combo_state' = "normal"
    /\ threads' = [threads EXCEPT ![t].pc = "enable_refresh"]
    /\ UNCHANGED <<env_vars, ui_vars, recording, selected_window,
                   start_button, stop_button, refresh_button>>

\* Line 236, and the thread ends.
EnableRefresh(t) ==
    /\ threads[t].pc = "enable_refresh"
    /\ refresh_button' = "normal"
    /\ threads' = [threads EXCEPT ![t].pc = "done"]
    /\ UNCHANGED <<env_vars, ui_vars, recording, selected_window,
                   start_button, stop_button, combo_state>>

ThreadStep(t) ==
    \/ Resolve(t)
    \/ \E ok \in BOOLEAN : OpenPreferred(t, ok)
    \/ \E ok \in BOOLEAN : OpenFallback(t, ok)
    \/ NoticeStarted(t)
    \/ LoopCheck(t)
    \/ Requery(t)
    \/ GrabEncode(t)
    \/ Sleep(t)
    \/ Release(t)
    \/ NoticeFinished(t)
    \/ EnableStart(t)
    \/ DisableStop(t)
    \/ EnableCombo(t)
    \/ EnableRefresh(t)

\* -------------------------------------------------------------- environment
\* The tracked window is resized, or closed, by its owner.
WindowResize(rect) ==
    /\ platform = "win32"
    /\ win_exists
    /\ rect \in WindowRects
    /\ rect # win_rect
    /\ win_rect' = rect
    /\ UNCHANGED <<platform, win_exists, widget_vars, ui_vars, recording,
                   selected_window, threads>>

WindowClose ==
    /\ platform = "win32"
    /\ win_exists
    /\ win_exists' = FALSE
    /\ win_rect' = NoRect
    /\ UNCHANGED <<platform, widget_vars, ui_vars, recording,
                   selected_window, threads>>

\* ------------------------------------------------------------ specification
Next ==
    \/ \E f \in FpsTexts, i \in IntervalTexts, name \in FilenameTexts, p \in PathTexts :
           start_recording(f, i, name, p)
    \/ stop_recording
    \/ \E folder \in BrowseFolders, f \in BrowseFpsTexts, i \in BrowseIntervalTexts :
           browse_folder(folder, f, i)
    \/ refresh_windows
    \/ \E name \in combo_values : SelectWindow(name)
    \/ \E text \in TypedWindowTexts : TypeWindow(text)
    \/ \E t \in Tids : Resolve(t)
    \/ \E t \in Tids, ok \in BOOLEAN : OpenPreferred(t, ok)
    \/ \E t \in Tids, ok \in BOOLEAN : OpenFallback(t, ok)
    \/ \E t \in Tids : NoticeStarted(t)
    \/ \E t \in Tids : LoopCheck(t)
    \/ \E t \in Tids : Requery(t)
    \/ \E t \in Tids : GrabEncode(t)
    \/ \E t \in Tids : Sleep(t)
    \/ \E t \in Tids : Release(t)
    \/ \E t \in Tids : NoticeFinished(t)
    \/ \E t \in Tids : EnableStart(t)
    \/ \E t \in Tids : DisableStop(t)
    \/ \E t \in Tids : EnableCombo(t)
    \/ \E t \in Tids : EnableRefresh(t)
    \/ \E rect \in WindowRects : WindowResize(rect)
    \/ WindowClose

Spec == Init /\ [][Next]_vars

\* The scheduler runs every live thread: each thread step that stays enabled
\* is eventually taken.
FairSpec == Spec /\ \A t \in 1..MaxSessions : WF_vars(t \in Tids /\ ThreadStep(t))

\* ------------------------------------------- load_config and save_config alone
\* The records save_config is called with, and the texts config.txt may hold
\* when load_config reads it: written by save_config, or edited by hand.
ConfigPaths == {Text("/cwd/out"), Text("/data"), <<"my", " ", "dir">>}
ConfigWindows == {Text(EntireScreen), Text(WindowTitle), <<"a", "=", "b">>,
                  <<WindowTitle, " ">>}
Configs == [path : ConfigPaths, fps : {Num(30), Num(60)},
            interval : {Num(1), Num(2)}, window : ConfigWindows]
\* Configs whose four values are single words.
PlainConfigs == {c \in Configs : Len(c.path) = 1 /\ Len(c.window) = 1}

ConfigKeys == <<"path", "fps", "interval", "window">>
\* The four lines save_config writes for c.
ConfigLines(c) ==
    << KeyLine("path", c.path), KeyLine("fps", Text(FloatStr(c.fps))),
       KeyLine("interval", Text(FloatStr(c.interval))),
       KeyLine("window", c.window) >>

\* Hand edits of a file: its lines in another order, one line removed, a line
\* added, a line replaced.
LineOrders == {<<4, 3, 2, 1>>, <<2, 4, 1, 3>>}
Permute(lines, order) == [i \in 1..Len(order) |-> lines[order[i]]]
Without(lines, k) == SubSeq(lines, 1, k-1) \o SubSeq(lines, k+1, Len(lines))
InsertAt(lines, k, line) ==
    SubSeq(lines, 1, k-1) \o <<line>> \o SubSeq(lines, k, Len(lines))
ReplaceAt(lines, k, line) == [lines EXCEPT ![k] = line]
\* A line with no '=', and a line whose key load_config never looks up.
JunkLine == <<"#", " ", "settings">>
UnknownKeyLine == KeyLine("codec", Text("avc1"))
\* The line of a float key (2: fps, 3: interval) holding a word float() rejects.
NonNumericLine(k) == <<ConfigKeys[k], " ", "=", " ", "abc">>

ReorderedTexts(c) == {JoinLines(Permute(ConfigLines(c), o)) : o \in LineOrders}
ShortenedTexts(c) == {JoinLines(Without(ConfigLines(c), k)) : k \in 1..4}
ExtendedTexts(c) ==
    {JoinLines(InsertAt(ConfigLines(c), k, line)) :
         k \in 1..5, line \in {JunkLine, UnknownKeyLine}}
UnparsableTexts ==
    {JoinLines(ReplaceAt(ConfigLines(c), k, NonNumericLine(k))) :
         c \in PlainConfigs, k \in {2, 3}}
LineFreeTexts == {<<>>, <<"\n">>, JunkLine}

ConfigFiles ==
    {NoConfigFile}
    \cup {WrittenFile(text) :
              text \in LineFreeTexts \cup UnparsableTexts
                       \cup UNION {ReorderedTexts(c) \cup ShortenedTexts(c)
                                   \cup ExtendedTexts(c) : c \in PlainConfigs}}

\* The program starts: line 72 loads whatever config.txt holds.  The window
\* system plays no part (no window is enumerated, no session is started).
ConfigInit ==
    /\ platform = "other"
    /\ win_exists = FALSE
    /\ win_rect = NoRect
    /\ recording = FALSE
    /\ selected_window = NoWindow
    /\ config_file \in ConfigFiles
    /\ config = load_config(config_file)
    /\ output_folder = ScriptDir
    /\ combo_values = {EntireScreen}
    /\ combo_sel = EntireScreen
    /\ start_button = "normal"
    /\ stop_button = "disabled"
    /\ combo_state = "readonly"
    /\ refresh_button = "normal"
    /\ start_result = "none"
    /\ threads = <<>>

\* save_config(c) writes config.txt and the next run's load_config() reads it.
SaveThenLoad(c) ==
    /\ config_file' = save_config(c.path, c.fps, c.interval, c.window)
    /\ config' = load_config(config_file')
    /\ UNCHANGED <<env_vars, widget_vars, recording, selected_window,
                   output_folder, combo_values, combo_sel, start_result, threads>>

\* config.txt is edited (or deleted) and the next run's load_config() reads it.
EditThenLoad(file) ==
    /\ config_file' = file
    /\ config' = load_config(file)
    /\ UNCHANGED <<env_vars, widget_vars, recording, selected_window,
                   output_folder, combo_values, combo_sel, start_result, threads>>

ConfigNext ==
    \/ \E c \in Configs : SaveThenLoad(c)
    \/ \E file \in ConfigFiles : EditThenLoad(file)

ConfigSpec == ConfigInit /\ [][ConfigNext]_vars

\* =================================================================== claims

\* ---- C1: at most one recording session is active: at most one record()
\* thread exists and at most one encoder sink is open.
C1_AtMostOneSession ==
    /\ Cardinality({t \in Tids : Alive(t)}) <= 1
    /\ Cardinality({t \in Tids : threads[t].out.opened}) <= 1

\* ---- C2: once stop_recording has cleared the flag, a thread in the loop
\* starts no new iteration after its next check of the flag and makes at most
\* one more grab-encode step; the flag stays cleared while it is in the loop,
\* it can always take a step, and each of its steps brings it strictly nearer
\* to leaving the loop, so under fair scheduling of the thread (FairSpec) it
\* leaves within four steps.
LoopRank(th) ==
    CASE th.pc = "requery" -> 4
      [] th.pc = "grab"    -> 3
      [] th.pc = "sleep"   -> 2
      [] th.pc = "check"   -> 1
      [] OTHER             -> 0

C2_StopEndsLoop ==
    /\ [](\A t \in Tids : threads[t].late <= 1)
    /\ [](\A t \in Tids : (InLoop(t) /\ ~recording) => ENABLED ThreadStep(t))
    /\ [][\A t \in Tids :
            (InLoop(t) /\ ~recording)
                => /\ ~recording'
                   /\ LoopRank(threads'[t]) <= LoopRank(threads[t])
                   /\ threads'[t] # threads[t]
                          => LoopRank(threads'[t]) < LoopRank(threads[t])]_vars

\* The same as a leads-to property of FairSpec.
C2_EventuallyExits ==
    \A t \in 1..MaxSessions :
        (t \in Tids /\ InLoop(t) /\ ~recording) ~> ~(t \in Tids /\ InLoop(t))

\* A stop arrived in the middle of an iteration: that iteration's frame was
\* written after the clear and the loop has been left.
C2_Witness ==
    \E t \in Tids : /\ threads[t].late = 1
                    /\ threads[t].pc = "finished"
                    /\ Len(threads[t].out.frames) >= 1

\* ---- C3: when neither codec opens, the session never samples: no loop
\* iteration runs, no "started"/"finished" notice is shown, and the flag is
\* cleared with Start enabled again.
BothFailed(t) ==
    /\ Len(threads[t].out.attempts) = 2
    /\ ~EverOpened(threads[t].out)

C3_NoSamplingWithoutEncoder ==
    \A t \in Tids : BothFailed(t) =>
        /\ threads[t].n = 0
        /\ threads[t].notices = <<>>

\* ---- C4: a window that disappears during Sampling ends the session closed:
\* no thread is ended by the failed geometry query with its sink still open,
\* the flag still set or Start still disabled.
RegionLost(t) ==
    /\ threads[t].exc = "GetWindowRect: invalid window handle"
    /\ threads[t].n > 0

C4_RegionLostFailsClosed ==
    \A t \in Tids : RegionLost(t) =>
        /\ ~threads[t].out.opened
        /\ ~recording
        /\ start_button = "normal"

\* ---- C5: every start-time failure is reported by the start request itself:
\* no record() thread exists whose window could not be resolved at
\* Initializing or whose encoder could not be opened.
RegionUnavailable(t) ==
    /\ threads[t].exc = "GetWindowRect: invalid window handle"
    /\ threads[t].n = 0

C5_StartFailuresSynchronous ==
    \A t \in Tids : ~RegionUnavailable(t) /\ ~BothFailed(t)

\* ---- C6: a start request whose fps or interval text is non-numeric or not
\* greater than 0 is answered with an error box and changes nothing else.
ValidEntry(text) == GtZero(ParseFloat(text))

C6_InvalidParametersRejected ==
    [][\A f \in FpsTexts, i \in IntervalTexts, name \in FilenameTexts, p \in PathTexts :
          (start_recording(f, i, name, p) /\ ~(ValidEntry(f) /\ ValidEntry(i)))
              => /\ start_result' \in {"Invalid numeric input",
                                       "FPS and Interval must be > 0"}
                 /\ UNCHANGED <<recording, threads, widget_vars, config_file,
                                selected_window, output_folder>>]_vars

\* ---- C7: every frame a sink holds has the width and height of the first
\* sample, with which every writer of the session was constructed, however
\* the tracked window's rectangle changed between ticks.
C7_FrameSizeFixed ==
    \A t \in Tids :
        LET out == threads[t].out IN
        /\ \A k \in 1..Len(out.attempts) :
               /\ out.attempts[k].width = out.attempts[1].width
               /\ out.attempts[k].height = out.attempts[1].height
        /\ \A k \in 1..Len(out.frames) :
               /\ out.frames[k].width = out.attempts[1].width
               /\ out.frames[k].height = out.attempts[1].height

\* A frame was written while the region's size differed from the first sample's.
C7_Witness ==
    \E t \in Tids :
        /\ threads[t].pc = "sleep"
        /\ Len(threads[t].out.frames) >= 1
        /\ threads[t].monitor.width # threads[t].width

\* ---- C8: a session whose encoder opened ends by closing the sink exactly
\* once, then showing the "finished" notice naming the saved path, then
\* enabling Start; no thread of such a session ends any other way.
FinishedNotice(t) ==
    [title |-> "Recording Finished", window |-> "", path |-> threads[t].save_file]

C8_StopClosesThenNotifies ==
    \A t \in Tids : EverOpened(threads[t].out) =>
        /\ threads[t].pc \in {"finished", "enable_start"}
              => ~threads[t].out.opened /\ threads[t].out.releases = 1
        /\ threads[t].pc = "enable_start"
              => threads[t].notices[Len(threads[t].notices)] = FinishedNotice(t)
        /\ threads[t].pc # "crashed"

\* ---- C9: between iterations and after the loop, the sink holds as many
\* frames as iterations were run; the first grab is not one of them.
C9_FramesEqualTicks ==
    \A t \in Tids :
        threads[t].pc \in {"check", "release", "finished", "enable_start"}
            => Len(threads[t].out.frames) = threads[t].n

\* ---- C10: the sink is opened with the requested fps, whatever the interval,
\* and the frame count (so the duration frameCount / fps) of a session with
\* valid parameters is a function of its ticks alone.
VideoDuration(frameCount, fps) == [num |-> frameCount, den |-> fps.v]

PastFallback(t) ==
    threads[t].pc \in {"started", "check", "requery", "grab", "sleep",
                       "release", "finished", "enable_start"}

C11_FallbackIffPreferredFailed ==
    \A t \in Tids :
        LET a == threads[t].out.attempts IN
        /\ Len(a) <= 2
        /\ Len(a) >= 1 => a[1].codec = "avc1"
        /\ Len(a) = 2 => /\ ~a[1].ok
                         /\ a[2].codec = "mp4v"
                         /\ a[2].path = a[1].path
                         /\ a[2].fps = a[1].fps
                         /\ a[2].width = a[1].width
                         /\ a[2].height = a[1].height
        /\ PastFallback(t) => Len(a) = (IF a[1].ok THEN 1 ELSE 2)

\* The avc1 writer did not open and the mp4v writer did.
C11_Witness ==
    \E t \in Tids :
        /\ threads[t].pc = "started"
        /\ Len(threads[t].out.attempts) = 2
        /\ threads[t].out.opened

\* ---- C12: where windows are not enumerated (sys.platform is not win32) the
\* combobox offers "Entire Screen" only, and no record() thread is spawned
\* there for a start request whose window name is not "Entire Screen".
WindowBoundRequest(t) == threads[t].window_name \notin {EntireScreen, ""}

C12_NoWindowSessionsOffWin32 ==
    platform # "win32" =>
        /\ combo_values = {EntireScreen}
        /\ \A t \in Tids : ~WindowBoundRequest(t)

\* ---- C13: while a record() thread is in its loop, no step changes what the
\* loop reads besides the flag: the global selected_window and the thread's
\* save_file, fps and interval stay as its start request set them, whichever
\* handler (start, stop, browse, refresh) runs meanwhile.
C13_LoopInputsFrozen ==
    [][\A t \in Tids : InLoop(t) =>
          /\ selected_window' = selected_window
          /\ threads'[t].save_file = threads[t].save_file
          /\ threads'[t].fps = threads[t].fps
          /\ threads'[t].interval = threads[t].interval]_vars

\* A thread in its loop after stop_recording cleared the flag and
\* browse_folder rewrote the stored configuration.
C13_Witness ==
    \E t \in Tids :
        /\ InLoop(t)
        /\ threads[t].n >= 1
        /\ ~recording
        /\ config_file # save_config(Text(threads[t].save_file[1]), threads[t].fps,
                                     threads[t].interval,
                                     Text(threads[t].window_name))

\* ---- C14: load_config() always returns a complete record (a path, a float
\* fps, a float interval, a window), and exactly the defaults when config.txt
\* is missing or holds an fps or interval value float() rejects.
C14_LoadNeverFails ==
    /\ DOMAIN config = {"path", "fps", "interval", "window"}
    /\ config.path # <<>>
    /\ config.fps.kind \in {"num", "nan"}
    /\ config.interval.kind \in {"num", "nan"}
    /\ (~config_file.exists \/ config_file.text \in UnparsableTexts)
           => config = ConfigDefaults
    /\ (config_file.exists /\ config_file.text \in LineFreeTexts)
           => config = ConfigDefaults

\* A file with a non-numeric interval and a stored path was loaded.
C14_Witness ==
    /\ config_file.exists
    /\ config_file.text \in UnparsableTexts
    /\ HasKey(ParsePairs(SplitLines(config_file.text)), "path")
    /\ FloatOf(DictGet(ParsePairs(SplitLines(config_file.text)), "interval")).kind
           = "error"

\* ---- C15: load_config() after save_config(c) returns c in all four fields,
\* for every c with float fps and interval, a path holding no '=' and no
\* newline, and any window name.
C15_SaveLoadRoundTrip ==
    \A c \in Configs :
        config_file = save_config(c.path, c.fps, c.interval, c.window)
            => config = c

\* ---- C16: a start request that is accepted leaves config.txt holding its
\* parameters (the resolved output path, fps, interval, window name), as
\* load_config() reads them back; a start request that is rejected or ignored
\* leaves config.txt as it was.  So after any sequence of start requests the
\* file holds the parameters of the last accepted one.  (A start_recording
\* step that changes anything spawns a thread or changes start_result.)
C16_ConfigFollowsAcceptedStart ==
    [][(Len(threads') # Len(threads) \/ start_result' # start_result) =>
          \A f \in FpsTexts, i \in IntervalTexts, name \in FilenameTexts, p \in PathTexts :
              start_recording(f, i, name, p) =>
                  IF start_result' = "accepted"
                  THEN load_config(config_file')
                           = [path |-> Text(ResolvePath(p)), fps |-> ParseFloat(f),
                              interval |-> ParseFloat(i), window |-> Text(combo_sel)]
                  ELSE config_file' = config_file]_vars

\* A second start request, for the window, was accepted and the file holds
\* its parameters.
C16_Witness ==
    /\ Len(threads) = 2
    /\ threads[2].pc = "resolve"
    /\ threads[2].window_name = WindowTitle
    /\ load_config(config_file).window = Text(WindowTitle)
    /\ load_config(config_file).fps = threads[2].fps

\* ---- C17: in a session bound to a window, a tick whose geometry query
\* gives no rectangle grabs the last rectangle resolved and the loop goes on
\* (no thread is ended by the query of a tick); in a session of the entire
\* screen every tick grabs the same rectangle.
WindowBound == selected_window # NoWindow /\ platform = "win32"

C18_KeyValueLines ==
    \A c \in PlainConfigs :
        /\ config_file.text \in ReorderedTexts(c) => config = c
        /\ config_file.text \in ExtendedTexts(c) => config = c
        /\ \A k \in 1..4 :
               config_file.text = JoinLines(Without(ConfigLines(c), k))
                   => config = [c EXCEPT ![ConfigKeys[k]] = ConfigDefaults[ConfigKeys[k]]]

\* A file with a line without '=' ahead of its key=value lines was loaded
\* with none of the defaults, or a file without its fps line with that default.
C18_Witness ==
    \/ /\ config_file.text = JoinLines(InsertAt(ConfigLines(config), 1, JunkLine))
       /\ config.fps = Num(60)
       /\ config.path # ConfigDefaults.path
    \/ /\ config_file.text = JoinLines(Without(ConfigLines(
                                 [config EXCEPT !.fps = Num(60)]), 2))
       /\ config.fps = Num(30)
       /\ config.interval = Num(2)

\* ---- C19: in every reachable state Start is enabled exactly when Stop is
\* disabled and exactly when the window combobox and the refresh button are
\* enabled; and when Start is enabled the flag is cleared and no encoder sink
\* is open.
C19_ControlsConsistent ==
    /\ (start_button = "normal") <=> (stop_button = "disabled")
    /\ (start_button = "normal") <=> (combo_state # "disabled")
    /\ (start_button = "normal") <=> (refresh_button = "normal")
    /\ start_button = "normal" =>
           /\ ~recording
           /\ \A t \in Tids : ~threads[t].out.opened

\* ---- C20: the flag is set only by an accepted start request, in the step
\* that spawns the thread (which has not run yet); no thread step sets it.  A
\* flag cleared before the thread's first check stays cleared until the thread
\* has left the loop, and the check then leaves the loop with no iteration run.
BeforeLoop(t) == threads[t].pc \in {"resolve", "open", "fallback", "started"}

C20_OnlyStartSetsFlag ==
    /\ [][(~recording /\ recording') =>
             /\ Len(threads') = Len(threads) + 1
             /\ threads'[Len(threads')].pc = "resolve"
             /\ start_result' = "accepted"]_vars
    /\ [][\A t \in Tids : (~recording /\ (BeforeLoop(t) \/ InLoop(t)))
                              => ~recording']_vars
    /\ [][\A t \in Tids :
             (~recording /\ threads[t].pc = "check" /\ threads'[t] # threads[t])
                 => /\ threads'[t].pc = "release"
                    /\ threads'[t].n = threads[t].n]_vars

\* Stop was clicked before the thread's first check: the thread has finished
\* with its "started" notice shown and no iteration run.
C20_Witness ==
    \E t \in Tids :
        /\ threads[t].pc = "finished"
        /\ threads[t].n = 0
        /\ Len(threads[t].notices) = 1
        /\ Len(threads[t].out.frames) = 0
        /\ ~recording

====
